---- MODULE Spec2Model ----
(***************************************************************************)
(* Model of tmdb.py: the get_by_id aggregation pipeline, the message       *)
(* formatter format_tmdb_info and the two name searches.                   *)
(*                                                                         *)
(* Python strings are sequences of one-character strings, so that slicing, *)
(* split, strip and isalnum are computed and not assumed.  A dict is a     *)
(* record whose domain is the set of keys present.  None is the sequence   *)
(* None below where a string is expected, NoneInt where an integer is      *)
(* expected and PyNone where a dict is expected.                           *)
(***************************************************************************)
EXTENDS Integers, Sequences, FiniteSets, TLC

VARIABLES op, pc, args, open, core, data, movie_images, credits,
          trailer_url, imdb_id, imdb_lookup, plot, exc, result, log

vars == <<op, pc, args, open, core, data, movie_images, credits,
          trailer_url, imdb_id, imdb_lookup, plot, exc, result, log>>

\* ------------------------------------------------------------------ bounds
\* Largest season / episode number of a request.
MaxSeason == 2
\* Number of people in the longest cast list returned by the credits endpoint.
MaxCast == 6
\* A season / episode number of two digits.
BigSeason == 11

\* ------------------------------------------------------- Python values
None == <<"None">>
NoneInt == 0 - 1
PyNone == [none |-> TRUE]

\* truthiness of a str-or-None value
Truthy(s) == s # None /\ s # <<>>
\* truthiness of an int-or-None value
TruthyInt(n) == n # NoneInt /\ n # 0

\* dict.get(key, default)
Get(d, k, default) == IF k \in DOMAIN d THEN d[k] ELSE default

Min(a, b) == IF a < b THEN a ELSE b

\* s[:n]
Take(s, n) == SubSeq(s, 1, Min(n, Len(s)))

\* str.isalnum() of one character
AlnumChars ==
  {"a", "b", "c", "d", "e", "f", "g", "h", "i", "j", "k", "l", "m", "n", "o",
   "p", "q", "r", "s", "t", "u", "v", "w", "x", "y", "z", "A", "B", "C", "D",
   "E", "F", "G", "H", "I", "J", "K", "L", "M", "N", "O", "P", "Q", "R", "S",
   "T", "U", "V", "W", "X", "Y", "Z", "0", "1", "2", "3", "4", "5", "6", "7",
   "8", "9"}

isalnum(c) == c \in AlnumChars

\* the characters str.strip() removes
Whitespace == {" ", "\n", "\t", "\r"}

RECURSIVE lstrip(_)
lstrip(s) ==
  IF s # <<>> /\ Head(s) \in Whitespace THEN lstrip(Tail(s)) ELSE s

RECURSIVE rstrip(_)
rstrip(s) ==
  IF s # <<>> /\ s[Len(s)] \in Whitespace
  THEN rstrip(SubSeq(s, 1, Len(s) - 1)) ELSE s

\* str.strip()
strip(s) == rstrip(lstrip(s))

\* sub in s
Contains(s, sub) ==
  \E i \in 1..(Len(s) - Len(sub) + 1) : SubSeq(s, i, i + Len(sub) - 1) = sub

\* s.split(sep)[0] : the part of s before the first occurrence of sep
BeforeFirst(s, sep) ==
  IF Contains(s, sep)
  THEN LET i == CHOOSE j \in 1..(Len(s) - Len(sep) + 1) :
                  /\ SubSeq(s, j, j + Len(sep) - 1) = sep
                  /\ \A k \in 1..(j - 1) : SubSeq(s, k, k + Len(sep) - 1) # sep
       IN SubSeq(s, 1, i - 1)
  ELSE s

\* s.split(c) for a one-character separator c
RECURSIVE split(_, _)
split(s, c) ==
  IF \E i \in 1..Len(s) : s[i] = c
  THEN LET i == CHOOSE j \in 1..Len(s) :
                  s[j] = c /\ \A k \in 1..(j - 1) : s[k] # c
       IN <<SubSeq(s, 1, i - 1)>> \o split(SubSeq(s, i + 1, Len(s)), c)
  ELSE <<s>>

\* sep.join(parts)
RECURSIVE join(_, _)
join(sep, parts) ==
  IF parts = <<>> THEN <<>>
  ELSE IF Len(parts) = 1 THEN parts[1]
  ELSE parts[1] \o sep \o join(sep, Tail(parts))

\* [f(x) for x in seq]
Map(f(_), seq) == [i \in 1..Len(seq) |-> f(seq[i])]

Digit(d) == <<"0", "1", "2", "3", "4", "5", "6", "7", "8", "9">>[d + 1]

\* str(n) for n >= 0
RECURSIVE str(_)
str(n) == IF n < 10 THEN <<Digit(n)>> ELSE str(n \div 10) \o <<Digit(n % 10)>>

\* f"{n:02d}" for n >= 0
fmt02d(n) == IF n < 10 THEN <<"0">> \o str(n) ELSE str(n)

\* --------------------------------------------------------- tmdb.py 8-77
POSTER_BASE_URL == <<"h", "t", "t", "p", "s", ":", "/", "/", "i", "m", "a", "g", "e", ".", "t", "m", "d", "b", ".", "o", "r", "g", "/", "t", "/", "p", "/", "o", "r", "i", "g", "i", "n", "a", "l">>
PROFILE_BASE_URL == <<"h", "t", "t", "p", "s", ":", "/", "/", "i", "m", "a", "g", "e", ".", "t", "m", "d", "b", ".", "o", "r", "g", "/", "t", "/", "p", "/", "w", "5", "0", "0">>

profile_url(path) == IF Truthy(path) THEN PROFILE_BASE_URL \o path ELSE None

extract_language(d) ==
  LET spoken_languages == Get(d, "spoken_languages", <<>>)
      english_name(lang) == Get(lang, "english_name", <<"U", "n", "k", "n", "o", "w", "n">>)
  IN IF spoken_languages # <<>>
     THEN join(<<",", " ">>, Map(english_name, spoken_languages))
     ELSE <<"U", "n", "k", "n", "o", "w", "n">>

RECURSIVE extract_genres_of(_)
extract_genres_of(gs) ==
  IF gs = <<>> THEN <<>>
  ELSE LET name == Head(gs).name
       IN (IF \E i \in 1..Len(name) : name[i] = "&"
           THEN Map(strip, split(name, "&"))
           ELSE <<name>>) \o extract_genres_of(Tail(gs))

extract_genres(d) == extract_genres_of(Get(d, "genres", <<>>))

extract_release_date(d) ==
  IF Truthy(Get(d, "release_date", None))
  THEN d.release_date
  ELSE Get(d, "first_air_date", <<>>)

PersonRef(member) ==
  [name |-> Get(member, "name", None),
   profile_path |-> profile_url(Get(member, "profile_path", None))]

extract_directors(tmdb_type, d, cr) ==
  IF tmdb_type = "movie"
  THEN Map(PersonRef,
           SelectSeq(Get(cr, "crew", <<>>),
                     LAMBDA m : Get(m, "job", None) = <<"D", "i", "r", "e", "c", "t", "o", "r">>))
  ELSE IF tmdb_type = "tv"
  THEN Map(PersonRef, Get(d, "created_by", <<>>))
  ELSE <<>>

StarLimit == 5

extract_stars(cr) ==
  LET cast_list == Get(cr, "cast", <<>>)
  IN IF cast_list = <<>> THEN <<>>
     ELSE Map(PersonRef, SubSeq(cast_list, 1, Min(StarLimit, Len(cast_list))))

get_poster_url(d) ==
  LET poster_path == Get(d, "poster_path", None)
  IN IF Truthy(poster_path) THEN POSTER_BASE_URL \o poster_path ELSE None

get_backdrop_url(imgs) ==
  LET has(key) == /\ key \in DOMAIN imgs
                  /\ imgs[key] # <<>>
                  /\ Truthy(Get(imgs[key][1], "file_path", None))
  IN IF has("backdrops") THEN POSTER_BASE_URL \o imgs.backdrops[1].file_path
     ELSE IF has("posters") THEN POSTER_BASE_URL \o imgs.posters[1].file_path
     ELSE None

\* -------------------------------------------------------- tmdb.py 79-88
\* The value get_trailer_url returns for a videos response that arrived.
get_trailer_url(resp) ==
  LET results == Get(resp.body, "results", <<>>)
      hit(v) == Get(v, "site", None) = <<"Y", "o", "u", "T", "u", "b", "e">> /\ Get(v, "type", None) = <<"T", "r", "a", "i", "l", "e", "r">>
      hits == SelectSeq(results, hit)
  IN IF resp.status = 200 /\ hits # <<>>
     THEN <<"h", "t", "t", "p", "s", ":", "/", "/", "w", "w", "w", ".", "y", "o", "u", "t", "u", "b", "e", ".", "c", "o", "m", "/", "w", "a", "t", "c", "h", "?", "v", "=">> \o Get(hits[1], "key", None)
     ELSE None

\* get_imdb_plot without the cut at "::"
get_imdb_plot_uncut(lookup) ==
  IF lookup.raised THEN <<>>
  ELSE LET plots == Get(lookup.movie, "plot", <<<<>>>>)
       IN IF plots = <<>> THEN <<>> ELSE strip(plots[1])

\* ------------------------------------------------------ tmdb.py 170-180
\* lookup is what IMDb().get_movie did: it raised, or it returned a movie.
get_imdb_plot(lookup) ==
  IF lookup.raised THEN <<>>
  ELSE LET plots == Get(lookup.movie, "plot", <<<<>>>>)
       IN IF plots = <<>> THEN <<>>             \* IndexError, caught
          ELSE strip(BeforeFirst(plots[1], <<":", ":">>))

\* ------------------------------------------------------ tmdb.py 182-224
\* the year shown for every episode of season 1
header_year_in_season_one(tmdb_type, season, episode, d) ==
  LET open_b == <<"<", "b", ">">>
      avail == <<"<", "/", "b", ">", " ", "i", "s", " ", "n", "o", "w", " ", "a", "v", "a", "i", "l", "a", "b", "l", "e", "!">>
  IN IF tmdb_type = "movie"
     THEN LET title == Get(d, "title", <<>>)
              year == IF Truthy(Get(d, "release_date", None))
                      THEN Take(d.release_date, 4) ELSE <<>>
          IN open_b \o title \o <<" ", "(">> \o year \o <<")">> \o avail
     ELSE IF tmdb_type = "tv"
     THEN LET title == Get(d, "name", <<>>)
              year == IF Truthy(Get(d, "first_air_date", None))
                      THEN Take(d.first_air_date, 4) ELSE <<>>
          IN IF TruthyInt(season) /\ TruthyInt(episode)
             THEN IF season = 1
                  THEN open_b \o title \o <<" ", "(">> \o year \o <<")", " ", "S">> \o fmt02d(season)
                         \o <<"E">> \o fmt02d(episode) \o avail
                  ELSE open_b \o title \o <<" ", "S">> \o fmt02d(season)
                         \o <<"E">> \o fmt02d(episode) \o avail
             ELSE IF TruthyInt(season)
             THEN IF season = 1
                  THEN open_b \o title \o <<" ", "(">> \o year \o <<")", " ", "S", "e", "a", "s", "o", "n", " ">> \o str(season)
                         \o avail
                  ELSE open_b \o title \o <<" ", "S", "e", "a", "s", "o", "n", " ">> \o str(season) \o avail
             ELSE open_b \o title \o avail
     ELSE <<"N", "o", "w", " ", "A", "v", "a", "i", "l", "a", "b", "l", "e", "!">>

header(tmdb_type, season, episode, d) ==
  LET open_b == <<"<", "b", ">">>
      avail == <<"<", "/", "b", ">", " ", "i", "s", " ", "n", "o", "w", " ", "a", "v", "a", "i", "l", "a", "b", "l", "e", "!">>
  IN IF tmdb_type = "movie"
     THEN LET title == Get(d, "title", <<>>)
              year == IF Truthy(Get(d, "release_date", None))
                      THEN Take(d.release_date, 4) ELSE <<>>
          IN open_b \o title \o <<" ", "(">> \o year \o <<")">> \o avail
     ELSE IF tmdb_type = "tv"
     THEN LET title == Get(d, "name", <<>>)
              year == IF Truthy(Get(d, "first_air_date", None))
                      THEN Take(d.first_air_date, 4) ELSE <<>>
          IN IF TruthyInt(season) /\ TruthyInt(episode)
             THEN IF season = 1 /\ episode = 1
                  THEN open_b \o title \o <<" ", "(">> \o year \o <<")", " ", "S">> \o fmt02d(season)
                         \o <<"E">> \o fmt02d(episode) \o avail
                  ELSE open_b \o title \o <<" ", "S">> \o fmt02d(season)
                         \o <<"E">> \o fmt02d(episode) \o avail
             ELSE IF TruthyInt(season)
             THEN IF season = 1
                  THEN open_b \o title \o <<" ", "(">> \o year \o <<")", " ", "S", "e", "a", "s", "o", "n", " ">> \o str(season)
                         \o avail
                  ELSE open_b \o title \o <<" ", "S", "e", "a", "s", "o", "n", " ">> \o str(season) \o avail
             ELSE open_b \o title \o avail
     ELSE <<"N", "o", "w", " ", "A", "v", "a", "i", "l", "a", "b", "l", "e", "!">>

\* tags that lose only the spaces, ":" and "&" of a genre name
genres_str_keep_hyphen(d) ==
  LET name(g) == g.name
      genres == Map(name, Get(d, "genres", <<>>))
      tag(g) == <<"#">> \o SelectSeq(g, LAMBDA c : c \notin {" ", ":", "&"})
  IN join(<<" ">>, Map(tag, genres))

genres_str(d) ==
  LET name(g) == g.name
      genres == Map(name, Get(d, "genres", <<>>))
      tag(g) == <<"#">> \o SelectSeq(g, isalnum)
  IN join(<<" ">>, Map(tag, genres))

\* line 213 with `and` between the season test and the episode test
header_only_both(season, episode) ==
  (TruthyInt(season) /\ season > 1) /\ (TruthyInt(episode) /\ episode > 1)

\* the test of line 213
header_only(season, episode) ==
  (TruthyInt(season) /\ season > 1) \/ (TruthyInt(episode) /\ episode > 1)

format_tmdb_info(tmdb_type, season, episode, directors_str, stars_str, d, plot_text) ==
  LET h == header(tmdb_type, season, episode, d)
      g == genres_str(d)
  IN IF header_only(season, episode)
     THEN strip(h \o <<"\n", "\n">> \o g)
     ELSE strip(h \o <<"\n", "\n">>
                \o (IF Truthy(plot_text) THEN plot_text \o <<"\n", "\n">> ELSE <<>>)
                \o (IF Truthy(stars_str)
                    THEN <<"<", "b", ">", "S", "t", "a", "r", "s", ":", "<", "/", "b", ">", " ">> \o stars_str \o <<"\n", "\n">> ELSE <<>>)
                \o (IF Truthy(directors_str)
                    THEN <<"<", "b", ">", "D", "i", "r", "e", "c", "t", "o", "r", "s", ":", "<", "/", "b", ">", " ">> \o directors_str \o <<"\n", "\n">> ELSE <<>>)
                \o g)

\* ------------------------------------------------------ tmdb.py 239-285
\* a search that falls back to the unfiltered results when the year filter
\* leaves none
search_result_fallback(search_data, year, date_field, media_type) ==
  LET all == Get(search_data, "results", <<>>)
      keep(r) == /\ date_field \in DOMAIN r
                 /\ Truthy(r[date_field])
                 /\ Take(r[date_field], 4) = str(year)
      kept == IF TruthyInt(year) THEN SelectSeq(all, keep) ELSE all
      results == IF kept # <<>> THEN kept ELSE all
  IN IF results # <<>>
     THEN [id |-> results[1].id, media_type |-> media_type]
     ELSE PyNone

\* What get_movie_by_name / get_tv_by_name return for a search payload that
\* arrived: date_field is 'release_date' or 'first_air_date'.
search_result(search_data, year, date_field, media_type) ==
  LET all == Get(search_data, "results", <<>>)
      keep(r) == /\ date_field \in DOMAIN r
                 /\ Truthy(r[date_field])
                 /\ Take(r[date_field], 4) = str(year)
      results == IF TruthyInt(year) THEN SelectSeq(all, keep) ELSE all
  IN IF all # <<>> /\ results # <<>>
     THEN [id |-> results[1].id, media_type |-> media_type]
     ELSE PyNone

get_movie_by_name(search_data, release_year) ==
  search_result(search_data, release_year, "release_date", "movie")

get_tv_by_name(search_data, first_air_year) ==
  search_result(search_data, first_air_year, "first_air_date", "tv")

\* ------------------------------------------------ payloads of the remote APIs
MovieFull ==
  [id |-> 27, title |-> <<"D", "u", "n", "e">>, release_date |-> <<"2", "0", "2", "1", "-", "0", "9", "-", "1", "5">>,
   genres |-> <<[name |-> <<"S", "c", "i", "-", "F", "i", " ", "&", " ", "F", "a", "n", "t", "a", "s", "y">>], [name |-> <<"D", "r", "a", "m", "a">>]>>,
   overview |-> <<"S", "a", "n", "d", ".">>, imdb_id |-> <<"t", "t", "1">>, poster_path |-> <<"/", "p", ".", "j", "p", "g">>,
   spoken_languages |-> <<[english_name |-> <<"E", "n", "g", "l", "i", "s", "h">>], [iso_639_1 |-> <<"h", "i">>]>>,
   vote_average |-> 7845]

\* an error body, or a title the source knows next to nothing about
MovieBare == [id |-> 27, title |-> <<"D", "u", "n", "e">>]

MovieEmpty ==
  [id |-> 27, title |-> <<"D", "u", "n", "e">>, release_date |-> <<>>, genres |-> <<>>,
   overview |-> <<>>, imdb_id |-> None, poster_path |-> None,
   spoken_languages |-> <<>>, vote_average |-> 0]

\* "vote_average": null
MovieNullVote ==
  [id |-> 27, title |-> <<"D", "u", "n", "e">>, release_date |-> <<"2", "0", "2", "1", "-", "0", "9", "-", "1", "5">>,
   genres |-> <<[name |-> <<"D", "r", "a", "m", "a">>]>>, overview |-> <<"S", "a", "n", "d", ".">>,
   vote_average |-> NoneInt]

TvFull ==
  [id |-> 27, name |-> <<"S", "h", "o", "w">>, first_air_date |-> <<"2", "0", "2", "0", "-", "0", "5", "-", "0", "1">>,
   genres |-> <<[name |-> <<"S", "c", "i", "-", "F", "i", " ", "&", " ", "F", "a", "n", "t", "a", "s", "y">>]>>, overview |-> <<"L", "a", "b", ".">>,
   created_by |-> <<[name |-> <<"A", "n", "n">>, profile_path |-> <<"/", "a", ".", "j", "p", "g">>]>>,
   poster_path |-> <<"/", "s", ".", "j", "p", "g">>, vote_average |-> 8120]

TvBare == [id |-> 27, name |-> <<"S", "h", "o", "w">>]

TvWithImdb ==
  [id |-> 27, name |-> <<"S", "h", "o", "w">>, first_air_date |-> <<>>,
   genres |-> <<[name |-> <<"D", "r", "a", "m", "a">>]>>, imdb_id |-> <<"t", "t", "2">>, created_by |-> <<>>]

DetailPayloads(tmdb_type) ==
  IF tmdb_type = "movie"
  THEN {MovieFull, MovieBare, MovieEmpty, MovieNullVote}
  ELSE {TvFull, TvBare, TvWithImdb}

AllDetailPayloads == DetailPayloads("movie") \cup DetailPayloads("tv")

ImagesPayloads ==
  {[id |-> 27],
   [backdrops |-> <<[file_path |-> <<"/", "b", ".", "j", "p", "g">>]>>, posters |-> <<[file_path |-> <<"/", "q", ".", "j", "p", "g">>]>>],
   [backdrops |-> <<>>, posters |-> <<[file_path |-> <<"/", "q", ".", "j", "p", "g">>]>>]}

CastMember(i) == [name |-> <<"A", Digit(i)>>, profile_path |-> None]

CreditsPayloads ==
  {[id |-> 27],
   [cast |-> [i \in 1..MaxCast |-> CastMember(i)],
    crew |-> <<[name |-> <<"P", "a", "t">>, job |-> <<"P", "r", "o", "d", "u", "c", "e", "r">>],
               [name |-> <<"D", "e", "n", "i", "s">>, job |-> <<"D", "i", "r", "e", "c", "t", "o", "r">>, profile_path |-> <<"/", "d", ".", "j", "p", "g">>]>>]}

VideosResponses ==
  {[status |-> 200,
    body |-> [results |-> <<[site |-> <<"V", "i", "m", "e", "o">>, type |-> <<"T", "r", "a", "i", "l", "e", "r">>, key |-> <<"v", "0">>],
                            [site |-> <<"Y", "o", "u", "T", "u", "b", "e">>, type |-> <<"T", "e", "a", "s", "e", "r">>, key |-> <<"k", "0">>],
                            [site |-> <<"Y", "o", "u", "T", "u", "b", "e">>, type |-> <<"T", "r", "a", "i", "l", "e", "r">>, key |-> <<"k", "1">>]>>]],
   [status |-> 200, body |-> [results |-> <<>>]],
   [status |-> 404, body |-> [success |-> FALSE]]}

ExternalIdsPayloads == {[imdb_id |-> <<"t", "t", "9">>], [imdb_id |-> None], [success |-> FALSE]}

ImdbLookups ==
  {[raised |-> TRUE],
   [raised |-> FALSE, movie |-> [plot |-> <<<<"S", "p", "i", "c", "e", " ", "w", "a", "r", "s", ".", " ", ":", ":", "a", "n", "o", "n">>, <<"O", "t", "h", "e", "r", ".">>>>]],
   [raised |-> FALSE, movie |-> [plot |-> <<<<"S", "p", "i", "c", "e", ".">>>>]],
   [raised |-> FALSE, movie |-> [plot |-> <<<<" ", ":", ":", "a", "n", "o", "n">>>>]],
   [raised |-> FALSE, movie |-> [plot |-> <<>>]],
   [raised |-> FALSE, movie |-> [title |-> <<"D", "u", "n", "e">>]]}

SearchPayloads ==
  {[results |-> <<>>],
   [success |-> FALSE],
   [results |-> <<[id |-> 1, release_date |-> <<"2", "0", "2", "0", "-", "0", "1", "-", "0", "2">>, first_air_date |-> <<"2", "0", "2", "0", "-", "0", "3", "-", "0", "4">>],
                  [id |-> 2, release_date |-> <<"2", "0", "1", "0", "-", "0", "7", "-", "1", "6">>, first_air_date |-> <<"2", "0", "1", "0", "-", "0", "9", "-", "0", "1">>]>>],
   [results |-> <<[id |-> 3], [id |-> 4, release_date |-> <<>>, first_air_date |-> None]>>]}

Years == {NoneInt, 2010, 1999}

\* exceptions: aiohttp.ClientError, or any other Exception
Errors ==
  {[kind |-> "ClientError", desc |-> <<"t", "i", "m", "e", "o", "u", "t">>],
   [kind |-> "Exception", desc |-> <<"b", "a", "d", " ", "j", "s", "o", "n">>]}

ClientErrors == {e \in Errors : e.kind = "ClientError"}

NoExc == [kind |-> "none", desc |-> <<>>, at |-> "none"]
Unset == [unset |-> TRUE]
NotCalled == [called |-> FALSE]

Seasons == {NoneInt} \cup 1..MaxSeason \cup {BigSeason}

TextArgs == {<<>>, <<"U", "n", "k", "n", "o", "w", "n">>, <<"A", "n", "n">>}
PlotArgs == {<<>>, <<"L", "a", "b", ".">>}

\* ------------------------------------------------------ tmdb.py 103-153
names_str(people) ==
  LET name(p) == p.name
  IN IF people # <<>> THEN join(<<",", " ">>, Map(name, people)) ELSE <<"U", "n", "k", "n", "o", "w", "n">>

\* round(float(v), 1) in tenths, for a vote average v given in thousandths
\* (the payloads above hold no value that lies on a rounding tie)
rating(v) == (v + 50) \div 100

message_of(a, d, cr, plot_text) ==
  format_tmdb_info(a.tmdb_type, a.season, a.episode,
                   names_str(extract_directors(a.tmdb_type, d, cr)),
                   names_str(extract_stars(cr)), d, plot_text)

mongo_dict(a, d, cr, trailer, plot_text) ==
  [tmdb_id |-> a.tmdb_id,
   tmdb_type |-> a.tmdb_type,
   title |-> IF Truthy(Get(d, "title", None)) THEN d.title ELSE Get(d, "name", None),
   rating |-> rating(Get(d, "vote_average", 0)),
   language |-> extract_language(d),
   genre |-> extract_genres(d),
   release_date |-> extract_release_date(d),
   story |-> IF Truthy(plot_text) THEN plot_text ELSE Get(d, "overview", None),
   directors |-> extract_directors(a.tmdb_type, d, cr),
   stars |-> extract_stars(cr),
   trailer_url |-> trailer,
   poster_url |-> get_poster_url(d)]

populated(a, d, imgs, cr, trailer, plot_text) ==
  [message |-> message_of(a, d, cr, plot_text),
   poster_url |-> get_poster_url(d),
   backdrop_url |-> get_backdrop_url(imgs),
   trailer_url |-> trailer,
   mongo_dict |-> mongo_dict(a, d, cr, trailer, plot_text)]

\* ------------------------------------------------------ tmdb.py 155-160
degraded(e) == [message |-> <<"E", "r", "r", "o", "r", ":", " ">> \o e.desc, poster_url |-> None]

\* get_by_id with the `except aiohttp.ClientError` clause alone
except_clauses_client_only(o, e) ==
  IF o = "get_by_id"
  THEN IF e.kind = "ClientError"
       THEN [caught |-> TRUE, label |-> "Error fetching TMDB data", value |-> degraded(e)]
       ELSE [caught |-> FALSE, label |-> "", value |-> PyNone]
  ELSE IF o = "get_movie_by_name"
  THEN [caught |-> TRUE, label |-> "Error fetching TMDb movie by name", value |-> PyNone]
  ELSE [caught |-> TRUE, label |-> "Error fetching TMDb TV by name", value |-> PyNone]

\* The except clauses of the operation o, applied to the exception e.
except_clauses(o, e) ==
  IF o = "get_by_id"
  THEN IF e.kind = "ClientError"
       THEN [caught |-> TRUE, label |-> "Error fetching TMDB data", value |-> degraded(e)]
       ELSE [caught |-> TRUE, label |-> "Unknown error in get_by_id", value |-> degraded(e)]
  ELSE IF o = "get_movie_by_name"
  THEN [caught |-> TRUE, label |-> "Error fetching TMDb movie by name", value |-> PyNone]
  ELSE [caught |-> TRUE, label |-> "Error fetching TMDb TV by name", value |-> PyNone]

\* a session closed by a session.close() at the end of the block, which an
\* exception skips
aexit_close_at_end(sessions, s, e) == IF e = NoExc THEN sessions \ {s} ELSE sessions

\* Leaving an `async with aiohttp.ClientSession() as session` block, normally
\* (e = NoExc) or with the exception e: the session is closed either way.
aexit(sessions, s, e) == sessions \ {s}

SessionOf(o) == IF o = "get_by_id" THEN "main" ELSE "search"

CoreRequests == {"detail", "images", "credits"}

\* ------------------------------------------------------------------ Init
GetByIdArgs ==
  [tmdb_type : {"movie", "tv"}, tmdb_id : {27}, season : Seasons, episode : Seasons]

SearchArgs == [name : {<<"I", "n", "c", "e", "p", "t", "i", "o", "n">>}, year : Years]

FormatArgs ==
  [tmdb_type : {"movie", "tv", "person"}, season : Seasons, episode : Seasons,
   directors_str : TextArgs, stars_str : TextArgs, data : AllDetailPayloads,
   plot : PlotArgs]

Init ==
  /\ op \in {"get_by_id", "get_movie_by_name", "get_tv_by_name", "format_tmdb_info"}
  /\ args \in (IF op = "get_by_id" THEN GetByIdArgs
               ELSE IF op = "format_tmdb_info" THEN FormatArgs ELSE SearchArgs)
  /\ pc = "start"
  /\ open = {}
  /\ core = [r \in CoreRequests |-> "idle"]
  /\ data = Unset
  /\ movie_images = Unset
  /\ credits = Unset
  /\ trailer_url = None
  /\ imdb_id = None
  /\ imdb_lookup = NotCalled
  /\ plot = None
  /\ exc = NoExc
  /\ result = Unset
  /\ log = <<>>

\* --------------------------------------------------------------- actions
Raise(e, at) ==
  /\ exc' = [kind |-> e.kind, desc |-> e.desc, at |-> at]
  /\ pc' = "unwind"

\* lines 95-98: the session is opened and the three requests are started
GetByIdStart ==
  /\ op = "get_by_id" /\ pc = "start"
  /\ open' = open \cup {"main"}
  /\ core' = [r \in CoreRequests |-> "pending"]
  /\ pc' = "gather"
  /\ UNCHANGED <<op, args, data, movie_images, credits, trailer_url, imdb_id,
                 imdb_lookup, plot, exc, result, log>>

\* lines 96-98: one of the gathered requests completes; gather returns once
\* the last one has, and re-raises the first error at once
CoreRespond(r) ==
  /\ op = "get_by_id" /\ pc = "gather" /\ core[r] = "pending"
  /\ \/ /\ core' = [core EXCEPT ![r] = "ok"]
        /\ pc' = IF \A q \in CoreRequests \ {r} : core[q] = "ok"
                 THEN "json_detail" ELSE "gather"
        /\ exc' = exc
     \/ \E e \in ClientErrors :
          /\ core' = [core EXCEPT ![r] = "err"]
          /\ Raise(e, r)
  /\ UNCHANGED <<op, args, open, data, movie_images, credits, trailer_url,
                 imdb_id, imdb_lookup, plot, result, log>>

\* line 99
ReadDetail ==
  /\ op = "get_by_id" /\ pc = "json_detail"
  /\ \/ /\ data' \in DetailPayloads(args.tmdb_type)
        /\ pc' = "json_images"
        /\ exc' = exc
     \/ /\ \E e \in Errors : Raise(e, "json")
        /\ data' = data
  /\ UNCHANGED <<op, args, open, core, movie_images, credits, trailer_url,
                 imdb_id, imdb_lookup, plot, result, log>>

\* line 100
ReadImages ==
  /\ op = "get_by_id" /\ pc = "json_images"
  /\ \/ /\ movie_images' \in ImagesPayloads
        /\ pc' = "json_credits"
        /\ exc' = exc
     \/ /\ \E e \in Errors : Raise(e, "json")
        /\ movie_images' = movie_images
  /\ UNCHANGED <<op, args, open, core, data, credits, trailer_url,
                 imdb_id, imdb_lookup, plot, result, log>>

\* line 101
ReadCredits ==
  /\ op = "get_by_id" /\ pc = "json_credits"
  /\ \/ /\ credits' \in CreditsPayloads
        /\ pc' = "trailer"
        /\ exc' = exc
     \/ /\ \E e \in Errors : Raise(e, "json")
        /\ credits' = credits
  /\ UNCHANGED <<op, args, open, core, data, movie_images, trailer_url,
                 imdb_id, imdb_lookup, plot, result, log>>

\* lines 121-125 once the external identifier id is known: the secondary
\* lookup is made only for a truthy id, else the overview is the plot
PlotStage(id) ==
  IF Truthy(id)
  THEN pc' = "imdb_plot" /\ plot' = <<>>
  ELSE pc' = "format" /\ plot' = Get(data, "overview", <<>>)

\* lines 105-125 up to the next await: the videos request of get_trailer_url
\* answers or raises
Trailer ==
  /\ op = "get_by_id" /\ pc = "trailer"
  /\ \/ /\ \E resp \in VideosResponses : trailer_url' = get_trailer_url(resp)
        /\ imdb_id' = Get(data, "imdb_id", None)
        /\ IF args.tmdb_type = "tv" /\ ~Truthy(imdb_id')
           THEN pc' = "tv_ext" /\ plot' = plot
           ELSE PlotStage(imdb_id')
        /\ exc' = exc
     \/ /\ \E e \in Errors : Raise(e, "get_trailer_url")
        /\ UNCHANGED <<trailer_url, imdb_id, plot>>
  /\ UNCHANGED <<op, args, open, core, data, movie_images, credits,
                 imdb_lookup, result, log>>

\* line 165: get_tv_imdb_id opens a session of its own
TvExtStart ==
  /\ op = "get_by_id" /\ pc = "tv_ext"
  /\ open' = open \cup {"ext"}
  /\ pc' = "tv_ext_get"
  /\ UNCHANGED <<op, args, core, data, movie_images, credits, trailer_url,
                 imdb_id, imdb_lookup, plot, exc, result, log>>

\* lines 166-168, then 121-125: the external-ids request answers or raises
TvExtRespond ==
  /\ op = "get_by_id" /\ pc = "tv_ext_get"
  /\ \/ /\ \E body \in ExternalIdsPayloads : imdb_id' = Get(body, "imdb_id", None)
        /\ open' = aexit(open, "ext", NoExc)
        /\ PlotStage(imdb_id')
        /\ exc' = exc
     \/ \E e \in Errors :
          /\ open' = aexit(open, "ext", e)
          /\ Raise(e, "get_tv_imdb_id")
          /\ UNCHANGED <<imdb_id, plot>>
  /\ UNCHANGED <<op, args, core, data, movie_images, credits, trailer_url,
                 imdb_lookup, result, log>>

\* lines 123-125: get_imdb_plot runs in a worker thread and is awaited
ImdbPlot ==
  /\ op = "get_by_id" /\ pc = "imdb_plot"
  /\ \E lookup \in ImdbLookups :
       /\ imdb_lookup' = [called |-> TRUE, outcome |-> lookup]
       /\ plot' = IF Truthy(get_imdb_plot(lookup))
                  THEN get_imdb_plot(lookup)
                  ELSE Get(data, "overview", <<>>)
  /\ pc' = "format"
  /\ UNCHANGED <<op, args, open, core, data, movie_images, credits, trailer_url,
                 imdb_id, exc, result, log>>

\* lines 128-153: float(None) raises TypeError while the record is built
BuildResult ==
  /\ op = "get_by_id" /\ pc = "format"
  /\ IF Get(data, "vote_average", 0) = NoneInt
     THEN /\ Raise([kind |-> "Exception", desc |-> <<"f", "l", "o", "a", "t", "(", ")", " ", "a", "r", "g", "u", "m", "e", "n", "t", " ", "m", "u", "s", "t", " ", "b", "e", " ", "a", " ", "s", "t", "r", "i", "n", "g", " ", "o", "r", " ", "a", " ", "r", "e", "a", "l", " ", "n", "u", "m", "b", "e", "r", ",", " ", "n", "o", "t", " ", "'", "N", "o", "n", "e", "T", "y", "p", "e", "'">>], "body")
          /\ result' = result
     ELSE /\ result' = populated(args, data, movie_images, credits, trailer_url, plot)
          /\ pc' = "exit"
          /\ exc' = exc
  /\ UNCHANGED <<op, args, open, core, data, movie_images, credits, trailer_url,
                 imdb_id, imdb_lookup, plot, log>>

\* lines 95 / 242 / 266: the `async with` block of the operation is left, by
\* a return or by an exception; requests still in flight go down with the
\* session's connections
ExitSession ==
  /\ pc \in {"exit", "unwind"}
  /\ open' = aexit(open, SessionOf(op), exc)
  /\ core' = [r \in CoreRequests |-> IF core[r] = "pending" THEN "aborted" ELSE core[r]]
  /\ pc' = IF pc = "unwind" THEN "except" ELSE "done"
  /\ UNCHANGED <<op, args, data, movie_images, credits, trailer_url, imdb_id,
                 imdb_lookup, plot, exc, result, log>>

\* lines 155-160 / 259-261 / 283-285
Except ==
  /\ pc = "except"
  /\ LET h == except_clauses(op, exc)
     IN IF h.caught
        THEN /\ log' = Append(log, h.label)
             /\ result' = h.value
             /\ pc' = "done"
        ELSE /\ pc' = "raised"
             /\ UNCHANGED <<log, result>>
  /\ UNCHANGED <<op, args, open, core, data, movie_images, credits, trailer_url,
                 imdb_id, imdb_lookup, plot, exc>>

\* lines 242-243 / 266-267
SearchStart ==
  /\ op \in {"get_movie_by_name", "get_tv_by_name"} /\ pc = "start"
  /\ open' = open \cup {"search"}
  /\ pc' = "search_get"
  /\ UNCHANGED <<op, args, core, data, movie_images, credits, trailer_url,
                 imdb_id, imdb_lookup, plot, exc, result, log>>

\* lines 243-258 / 267-282: the search request answers or raises
SearchRespond ==
  /\ op \in {"get_movie_by_name", "get_tv_by_name"} /\ pc = "search_get"
  /\ \/ /\ \E search_data \in SearchPayloads :
             /\ data' = search_data
             /\ result' = IF op = "get_movie_by_name"
                          THEN get_movie_by_name(search_data, args.year)
                          ELSE get_tv_by_name(search_data, args.year)
        /\ pc' = "exit"
        /\ exc' = exc
     \/ /\ \E e \in Errors : Raise(e, op)
        /\ UNCHANGED <<data, result>>
  /\ UNCHANGED <<op, args, open, core, movie_images, credits, trailer_url,
                 imdb_id, imdb_lookup, plot, log>>

\* lines 182-224 called on its own
FormatCall ==
  /\ op = "format_tmdb_info" /\ pc = "start"
  /\ result' = [message |->
                  format_tmdb_info(args.tmdb_type, args.season, args.episode,
                                   args.directors_str, args.stars_str,
                                   args.data, args.plot)]
  /\ pc' = "done"
  /\ UNCHANGED <<op, args, open, core, data, movie_images, credits, trailer_url,
                 imdb_id, imdb_lookup, plot, exc, log>>

Next ==
  \/ GetByIdStart
  \/ \E r \in CoreRequests : CoreRespond(r)
  \/ ReadDetail
  \/ ReadImages
  \/ ReadCredits
  \/ Trailer
  \/ TvExtStart
  \/ TvExtRespond
  \/ ImdbPlot
  \/ BuildResult
  \/ ExitSession
  \/ Except
  \/ SearchStart
  \/ SearchRespond
  \/ FormatCall

Spec == Init /\ [][Next]_vars

\* ---------------------------------------------------------------- claims
Returned == pc = "done"
Failed == exc.kind # "none"
Populated == DOMAIN result = {"message", "poster_url", "backdrop_url", "trailer_url", "mongo_dict"}
GetByIdDone == op = "get_by_id" /\ Returned
CoreSucceeded == (\A r \in CoreRequests : core[r] = "ok") /\ credits # Unset

\* a call of format_tmdb_info has returned its message
Formatted ==
  \/ op = "format_tmdb_info" /\ Returned
  \/ GetByIdDone /\ Populated
FmtData == IF op = "format_tmdb_info" THEN args.data ELSE data
FmtPlot == IF op = "format_tmdb_info" THEN args.plot ELSE plot
LaterEpisode == args.season > 1 \/ args.episode > 1
StartsWith(s, pre) == Len(pre) <= Len(s) /\ SubSeq(s, 1, Len(pre)) = pre
EndsWith(s, suf) == Len(suf) <= Len(s) /\ SubSeq(s, Len(s) - Len(suf) + 1, Len(s)) = suf
\* the first line of the message
HeaderLine == BeforeFirst(result.message, <<"\n">>)

\* C1: a failure of the trailer request or of the TV external-id request never
\* aborts get_by_id: with the three core requests answered, the call returns
\* the populated result.
C1_AuxFailureKeepsResult ==
  (GetByIdDone /\ CoreSucceeded /\ exc.at \in {"get_trailer_url", "get_tv_imdb_id"})
    => Populated

\* C2: whatever fails in get_by_id, no exception reaches the caller and the
\* call returns exactly {message: "Error: <description>", poster_url: None}.
C2_FailureDegrades ==
  op = "get_by_id" =>
    /\ pc # "raised"
    /\ (Returned /\ Failed) =>
         /\ DOMAIN result = {"message", "poster_url"}
         /\ result.poster_url = None
         /\ StartsWith(result.message, <<"E", "r", "r", "o", "r", ":", " ">>)
         /\ SubSeq(result.message, 8, Len(result.message)) = exc.desc

\* C2 witness: the credits request failed after the detail request succeeded
C2_Witness ==
  GetByIdDone /\ exc.at = "credits" /\ core["detail"] = "ok"

\* C3: when get_by_id has returned (or raised), no session it opened is open.
C3_SessionsClosed ==
  (op = "get_by_id" /\ pc \in {"done", "raised"}) => open = {}

\* C3 witness: a core request failed while another was still in flight
C3_Witness ==
  GetByIdDone /\ Failed /\ \E r \in CoreRequests : core[r] = "aborted"

\* What get_imdb_plot must return for each answer of the secondary source.
SecondaryPlot ==
  IF ~imdb_lookup.called \/ imdb_lookup.outcome.raised THEN <<>>
  ELSE LET movie == imdb_lookup.outcome.movie
       IN IF "plot" \notin DOMAIN movie \/ movie.plot = <<>> THEN <<>>
          ELSE IF movie.plot[1] = <<"S", "p", "i", "c", "e", " ", "w", "a", "r", "s", ".", " ", ":", ":", "a", "n", "o", "n">> THEN <<"S", "p", "i", "c", "e", " ", "w", "a", "r", "s", ".">>
          ELSE IF movie.plot[1] = <<"S", "p", "i", "c", "e", ".">> THEN <<"S", "p", "i", "c", "e", ".">>
          ELSE <<>>

\* C4: get_imdb_plot is called only with an external identifier; its failure
\* aborts nothing; the synopsis of the message and of the record is the
\* secondary plot, cut at "::" and trimmed, when non-empty, else the overview.
C4_SynopsisFallback ==
  op = "get_by_id" =>
    /\ imdb_lookup.called => Truthy(imdb_id)
    /\ exc.at # "get_imdb_plot"
    /\ (Returned /\ imdb_lookup.called /\ imdb_lookup.outcome.raised /\ exc.at # "body")
         => Populated
    /\ (Returned /\ Populated) =>
         /\ result.mongo_dict.story =
              IF SecondaryPlot # <<>> THEN SecondaryPlot ELSE Get(data, "overview", None)
         /\ (SecondaryPlot # <<>> /\ ~LaterEpisode) =>
              /\ Contains(result.message, <<"\n", "\n">> \o SecondaryPlot \o <<"\n", "\n">>)
              /\ Truthy(Get(data, "overview", None))
                   => ~Contains(result.message, data.overview)
         /\ (SecondaryPlot = <<>> /\ ~LaterEpisode /\ Truthy(Get(data, "overview", None)))
              => Contains(result.message, <<"\n", "\n">> \o data.overview \o <<"\n", "\n">>)

\* C4 witness: the secondary lookup raised and the overview became the synopsis
C4_Witness ==
  /\ GetByIdDone /\ Populated
  /\ imdb_lookup.called /\ imdb_lookup.outcome.raised
  /\ result.mongo_dict.story = <<"S", "a", "n", "d", ".">>

\* C5: with season > 1 or episode > 1 the message is the header, a blank line
\* and the genre tags only: no plot, no "Stars:" line, no "Directors:" line.
C5_LaterEpisodeHeaderOnly ==
  (Formatted /\ LaterEpisode) =>
    /\ ~Contains(result.message, <<"S", "t", "a", "r", "s", ":">>)
    /\ ~Contains(result.message, <<"D", "i", "r", "e", "c", "t", "o", "r", "s", ":">>)
    /\ Truthy(FmtPlot) => ~Contains(result.message, FmtPlot)
    /\ result.message =
         HeaderLine \o (IF Get(FmtData, "genres", <<>>) = <<>> THEN <<>>
                        ELSE <<"\n", "\n">> \o genres_str(FmtData))

\* C5 witness: season 1, episode 2 formatted with a plot
C5_Witness ==
  Formatted /\ args.season = 1 /\ args.episode = 2 /\ Truthy(FmtPlot)

TwoDigits(n) == <<Digit(n \div 10), Digit(n % 10)>>

\* C6: for a series the header is determined by (season, episode): SxxEyy with
\* both, the year only for S01E01; "Season N" with the season alone, the year
\* only for season 1; the bare title with neither.
C6_SeriesHeader ==
  (Formatted /\ args.tmdb_type = "tv") =>
    LET title == Get(FmtData, "name", <<>>)
        s == args.season
        e == args.episode
        bare == <<"<", "b", ">">> \o title \o <<"<", "/", "b", ">", " ", "i", "s", " ", "n", "o", "w", " ", "a", "v", "a", "i", "l", "a", "b", "l", "e", "!">>
        year == IF FmtData = TvFull THEN <<"(", "2", "0", "2", "0", ")">> ELSE <<"(", ")">>
    IN /\ (s >= 1 /\ e >= 1) =>
            /\ Contains(HeaderLine, <<" ", "S">> \o TwoDigits(s) \o <<"E">> \o TwoDigits(e) \o <<"<", "/", "b", ">">>)
            /\ Contains(HeaderLine, <<" ", "(">>) <=> (s = 1 /\ e = 1)
            /\ (s = 1 /\ e = 1) => Contains(HeaderLine, title \o <<" ">> \o year \o <<" ", "S", "0", "1", "E", "0", "1">>)
       /\ (s >= 1 /\ e = NoneInt) =>
            /\ Contains(HeaderLine, <<" ", "S", "e", "a", "s", "o", "n", " ">> \o str(s) \o <<"<", "/", "b", ">">>)
            /\ Contains(HeaderLine, <<" ", "(">>) <=> (s = 1)
            /\ (s = 1) => Contains(HeaderLine, title \o <<" ">> \o year \o <<" ", "S", "e", "a", "s", "o", "n", " ", "1">>)
       /\ (s = NoneInt /\ e = NoneInt) => HeaderLine = bare

\* C6 witness: the premiere of a dated series
C6_Witness ==
  /\ Formatted /\ args.tmdb_type = "tv" /\ args.season = 1 /\ args.episode = 1
  /\ FmtData = TvFull

\* the tag of each source genre name, and the entries it is split into
TagOfName(name) ==
  IF name = <<"S", "c", "i", "-", "F", "i", " ", "&", " ", "F", "a", "n", "t", "a", "s", "y">> THEN <<"#", "S", "c", "i", "F", "i", "F", "a", "n", "t", "a", "s", "y">> ELSE <<"#", "D", "r", "a", "m", "a">>
EntriesOfName(name) ==
  IF name = <<"S", "c", "i", "-", "F", "i", " ", "&", " ", "F", "a", "n", "t", "a", "s", "y">> THEN <<<<"S", "c", "i", "-", "F", "i">>, <<"F", "a", "n", "t", "a", "s", "y">>>> ELSE <<<<"D", "r", "a", "m", "a">>>>
TagOfEntry(entry) ==
  IF entry = <<"S", "c", "i", "-", "F", "i">> THEN <<"#", "S", "c", "i", "F", "i">> ELSE IF entry = <<"F", "a", "n", "t", "a", "s", "y">> THEN <<"#", "F", "a", "n", "t", "a", "s", "y">> ELSE <<"#", "D", "r", "a", "m", "a">>
RECURSIVE Flatten(_)
Flatten(ss) == IF ss = <<>> THEN <<>> ELSE Head(ss) \o Flatten(Tail(ss))
SourceNames == LET name(g) == g.name IN Map(name, Get(FmtData, "genres", <<>>))

\* C7 as stated: the tags of the message are those of the extracted genre
\* list, one per "&"-split entry ("Sci-Fi & Fantasy" gives "#SciFi #Fantasy").
C7_TagsOfExtractedGenres ==
  Formatted =>
    EndsWith(result.message,
             join(<<" ">>, Map(TagOfEntry, Flatten(Map(EntriesOfName, SourceNames)))))

\* C7 amended: the tags of the message are built from the source genre names
\* as received, one tag per name with every non-alphanumeric character (the
\* "&" included) removed; only the record's genre list is split at "&".
C7_TagsOfSourceNames ==
  /\ Formatted => EndsWith(result.message, join(<<" ">>, Map(TagOfName, SourceNames)))
  /\ (GetByIdDone /\ Populated) =>
       result.mongo_dict.genre = Flatten(Map(EntriesOfName, SourceNames))

\* C7 witness: "Sci-Fi & Fantasy" rendered as one tag, split in the record
C7_Witness ==
  /\ GetByIdDone /\ Populated
  /\ EndsWith(result.message, <<"#", "S", "c", "i", "F", "i", "F", "a", "n", "t", "a", "s", "y">>)
  /\ result.mongo_dict.genre = <<<<"S", "c", "i", "-", "F", "i">>, <<"F", "a", "n", "t", "a", "s", "y">>>>

SearchDone == op \in {"get_movie_by_name", "get_tv_by_name"} /\ Returned
Found == Get(data, "results", <<>>)
DateField == IF op = "get_movie_by_name" THEN "release_date" ELSE "first_air_date"
YearText == IF args.year = 2010 THEN <<"2", "0", "1", "0">> ELSE <<"1", "9", "9", "9">>
MatchesYear(r) ==
  /\ DateField \in DOMAIN r
  /\ r[DateField] # None
  /\ StartsWith(r[DateField], YearText)
MediaType == IF op = "get_movie_by_name" THEN "movie" ELSE "tv"

\* C8 as stated: with a year that no result matches the search falls back to
\* the first unfiltered result; it returns None only when the query failed or
\* found nothing.
C8_FallsBackToFirstResult ==
  (SearchDone /\ ~Failed /\ Found # <<>>) =>
    /\ result # PyNone
    /\ (args.year # NoneInt /\ \A i \in 1..Len(Found) : ~MatchesYear(Found[i]))
         => result = [id |-> Found[1].id, media_type |-> MediaType]

\* C8 amended: with a year, the first result whose date starts with that year
\* is returned and None when there is none; without a year, the first result;
\* None also when the query failed or found nothing.
C8_YearFilterIsStrict ==
  SearchDone =>
    /\ (Failed \/ Found = <<>>) => result = PyNone
    /\ (~Failed /\ Found # <<>> /\ args.year = NoneInt)
         => result = [id |-> Found[1].id, media_type |-> MediaType]
    /\ (~Failed /\ args.year # NoneInt) =>
         IF \E i \in 1..Len(Found) : MatchesYear(Found[i])
         THEN LET i == CHOOSE j \in 1..Len(Found) :
                         MatchesYear(Found[j]) /\ \A k \in 1..(j - 1) : ~MatchesYear(Found[k])
              IN result = [id |-> Found[i].id, media_type |-> MediaType]
         ELSE result = PyNone

\* C8 witness: results were found, none of the requested year, None returned
C8_Witness ==
  /\ SearchDone /\ ~Failed /\ Found # <<>> /\ args.year # NoneInt
  /\ \A i \in 1..Len(Found) : "release_date" \in DOMAIN Found[i]
  /\ result = PyNone

\* what follows the header and the blank line
Body == SubSeq(result.message, Len(HeaderLine) + 3, Len(result.message))

\* C9: in the full message of get_by_id the plot paragraph, the "Stars:" line
\* and the "Directors:" line each appear only when there is a plot, a cast
\* member, a director.
C9_OptionalSections ==
  (GetByIdDone /\ Populated /\ ~LaterEpisode) =>
    /\ Contains(result.message, <<"<", "b", ">", "S", "t", "a", "r", "s", ":", "<", "/", "b", ">">>) => result.mongo_dict.stars # <<>>
    /\ Contains(result.message, <<"<", "b", ">", "D", "i", "r", "e", "c", "t", "o", "r", "s", ":", "<", "/", "b", ">">>) => result.mongo_dict.directors # <<>>
    /\ ~Truthy(plot) =>
         \/ result.message = HeaderLine
         \/ StartsWith(Body, <<"<", "b", ">", "S", "t", "a", "r", "s", ":", "<", "/", "b", ">">>)
         \/ StartsWith(Body, <<"<", "b", ">", "D", "i", "r", "e", "c", "t", "o", "r", "s", ":", "<", "/", "b", ">">>)
         \/ StartsWith(Body, <<"#">>)

\* C10: the header of a movie is "<b>Title (Year)</b> is now available!" with
\* the first four characters of the release date, and carries no parentheses
\* at all when the release date is absent or empty.
C10_MovieHeader ==
  (Formatted /\ args.tmdb_type = "movie") =>
    LET title == Get(FmtData, "title", <<>>)
        dated == "release_date" \in DOMAIN FmtData /\ FmtData.release_date # <<>>
    IN /\ dated => HeaderLine = <<"<", "b", ">">> \o title \o <<" ", "(", "2", "0", "2", "1", ")", "<", "/", "b", ">", " ", "i", "s", " ", "n", "o", "w", " ", "a", "v", "a", "i", "l", "a", "b", "l", "e", "!">>
       /\ ~dated => ~Contains(HeaderLine, <<"(">>) /\ ~Contains(HeaderLine, <<")">>)

TypeOK ==
  /\ pc \in {"start", "gather", "json_detail", "json_images", "json_credits",
             "trailer", "tv_ext", "tv_ext_get", "imdb_plot", "format", "exit",
             "unwind", "except", "done", "raised", "search_get"}
  /\ open \subseteq {"main", "ext", "search"}
====
